---- MODULE Spec2Model ----
(***************************************************************************)
(* The guided ML pipeline of src/unnamed/part_000 (the variant that wires  *)
(* all eight stage buttons): file selection, CSV loading with three        *)
(* concurrent parser callbacks, inspection/normalisation, vocabulary       *)
(* building, sequence encoding, model creation, training, evaluation and   *)
(* prediction.  Strings are sequences of one-character strings so that     *)
(* trimming, lower-casing and tokenising are computed, not assumed.        *)
(* User clicks are delivered only to buttons whose disabled property the   *)
(* code has left false; file inputs are never disabled by the code.        *)
(* SpecStages follows the inspection and vocabulary stages over a wider    *)
(* choice of parsed rows; SpecApp follows the same two stages of the       *)
(* variant src/app.js; SpecEncoder follows the sequence encoder and the    *)
(* prediction stage from the state a completed run leaves; SpecTokenizer   *)
(* follows direct calls of the tokenizer.                                  *)
(***************************************************************************)
EXTENDS Integers, Sequences, FiniteSets, TLC

----------------------------------------------------------------------------
\* Bounds of the model (not program constants).

\* number of handleFileChange events, in one behaviour, for a role that
\* already holds an accepted file (re-selections)
MaxReselections == 1

\* number of parser error callbacks in one behaviour
MaxParseErrors == 1

\* number of loadData invocations in one behaviour of the loading stage
MaxLoads == 2

\* number of loadData invocations in one behaviour of the whole pipeline
MaxPipelineLoads == 1

\* number of awaited classifier operations (fit / evaluate / predict) that
\* may be outstanding at once, per kind
MaxAwait == 1

----------------------------------------------------------------------------
\* Program constants.

MAX_SEQUENCE_LENGTH == 50

EMBEDDING_DIM == 16

\* Object.keys(loadedFiles): insertion order of the object literal
Keys == <<"training", "testing", "validation">>

RoleSet == {"training", "testing", "validation"}

REQUIRED_FILES ==
  [training |-> "train.csv", testing |-> "test.csv", validation |-> "validation.csv"]

\* fileMappings: input id -> (expectedName, role obtained by id.replace('File',''))
fileMappings ==
  [trainingFile |-> [expectedName |-> REQUIRED_FILES.training, role |-> "training"],
   testingFile |-> [expectedName |-> REQUIRED_FILES.testing, role |-> "testing"],
   validationFile |-> [expectedName |-> REQUIRED_FILES.validation, role |-> "validation"]]

InputIds == {"trainingFile", "testingFile", "validationFile"}

\* the buttons the DOMContentLoaded handler attaches click handlers to
Buttons ==
  {"processBtn", "inspectBtn", "preprocessBtn", "embeddingBtn",
   "createModelBtn", "trainModelBtn", "evaluateBtn", "predictBtn"}

----------------------------------------------------------------------------
\* JavaScript values and strings.

Str(s) == [t |-> "string", s |-> s, n |-> 0]

Num(n) == [t |-> "number", s |-> <<>>, n |-> n]

Null == [t |-> "null", s |-> <<>>, n |-> 0]

Undefined == [t |-> "undefined", s |-> <<>>, n |-> 0]

UpperChars ==
  <<"A","B","C","D","E","F","G","H","I","J","K","L","M",
    "N","O","P","Q","R","S","T","U","V","W","X","Y","Z">>

LowerChars ==
  <<"a","b","c","d","e","f","g","h","i","j","k","l","m",
    "n","o","p","q","r","s","t","u","v","w","x","y","z">>

\* the upper-case letters with their lower-case forms
LowerOf == [i \in 1..Len(UpperChars) |-> LowerChars[i]]

UpperIndex == [c \in {UpperChars[i] : i \in 1..Len(UpperChars)} |->
                 CHOOSE i \in 1..Len(UpperChars) : UpperChars[i] = c]

\* String.prototype.toLowerCase, one character
LowerChar(c) == IF c \in DOMAIN UpperIndex THEN LowerOf[UpperIndex[c]] ELSE c

toLowerCase(s) == [i \in 1..Len(s) |-> LowerChar(s[i])]

\* characters matched by \s
WhiteSpace == {" ", "\t", "\n", "\r"}

\* U+0060 (grave accent), which the lexer of this language cannot hold in a
\* string literal; every other character is its own one-character string
Grave == "grave"

\* a character class that lacks the comma and the exclamation mark
PunctuationWithoutCommaAndBang ==
  {".", "/", "#", "$", "%", "^", "&", "*", ";", ":",
   "{", "}", "=", "-", "_", Grave, "~", "(", ")"}

\* the character class of the tokenizer's replace(), line 99
Punctuation ==
  {".", ",", "/", "#", "!", "$", "%", "^", "&", "*", ";", ":",
   "{", "}", "=", "-", "_", Grave, "~", "(", ")"}

RECURSIVE RemoveChars(_, _)
\* String.prototype.replace(/[set]/g, "")
RemoveChars(s, set) ==
  IF s = <<>> THEN <<>>
  ELSE IF Head(s) \in set THEN RemoveChars(Tail(s), set)
  ELSE <<Head(s)>> \o RemoveChars(Tail(s), set)

RECURSIVE TrimStart(_)
TrimStart(s) ==
  IF s # <<>> /\ Head(s) \in WhiteSpace THEN TrimStart(Tail(s)) ELSE s

RECURSIVE TrimEnd(_)
TrimEnd(s) ==
  IF s # <<>> /\ s[Len(s)] \in WhiteSpace THEN TrimEnd(SubSeq(s, 1, Len(s) - 1)) ELSE s

\* String.prototype.trim
trim(s) == TrimEnd(TrimStart(s))

RECURSIVE SplitWs(_, _, _)
\* String.prototype.split(/\s+/): pieces between maximal runs of white space
\* (a leading or trailing run yields an empty piece, as in JavaScript);
\* cur is the piece being read, inRun tells that the last character was \s
SplitWs(s, cur, inRun) ==
  IF s = <<>> THEN <<cur>>
  ELSE IF Head(s) \in WhiteSpace
    THEN IF inRun THEN SplitWs(Tail(s), cur, TRUE)
         ELSE <<cur>> \o SplitWs(Tail(s), <<>>, TRUE)
  ELSE SplitWs(Tail(s), Append(cur, Head(s)), FALSE)

RECURSIVE FilterNonEmpty(_)
\* Array.prototype.filter(word => word.length > 0)
FilterNonEmpty(ws) ==
  IF ws = <<>> THEN <<>>
  ELSE IF Len(Head(ws)) > 0 THEN <<Head(ws)>> \o FilterNonEmpty(Tail(ws))
  ELSE FilterNonEmpty(Tail(ws))

\* simpleTokenizer(text) for a JavaScript value text
simpleTokenizer(text) ==
  IF text.t # "string" \/ text.s = <<>> THEN <<>>
  ELSE FilterNonEmpty(SplitWs(RemoveChars(toLowerCase(text.s), Punctuation), <<>>, FALSE))

----------------------------------------------------------------------------
\* Inputs: file names and the row lists results.data that the CSV parser
\* (header: true, dynamicTyping: true, skipEmptyLines: true) yields for a file.

\* one field of a parsed row: header k (a string) and value v (a JS value)
Field(k, v) == [k |-> k, v |-> v]

H_text == <<"t","e","x","t">>

H_Text == <<"T","e","x","t">>

H_label == <<"l","a","b","e","l">>

T_ILovePizza == <<"I"," ","l","o","v","e"," ","p","i","z","z","a">>

T_AISpam == <<" ","A","I"," ","s","p","a","m","!"," ">>

T_Unseen == <<"u","n","s","e","e","n"," ","p","i","z","z","a">>

T_Yes == <<"y","e","s">>

\* a file that parses structurally but has no data row
DataEmpty == <<>>

\* headers text,label; two valid rows (a numeric and a string label)
DataA ==
  << <<Field(H_text, Str(T_ILovePizza)), Field(H_label, Num(1))>>,
     <<Field(H_text, Str(T_AISpam)), Field(H_label, Str(<<" ","0">>))>> >>

\* headers Text,label; one valid row, one row with label "yes", one with blank text
DataB ==
  << <<Field(H_Text, Str(T_Unseen)), Field(H_label, Num(0))>>,
     <<Field(H_Text, Str(T_ILovePizza)), Field(H_label, Str(T_Yes))>>,
     <<Field(H_Text, Str(<<" ">>)), Field(H_label, Num(1))>> >>

----------------------------------------------------------------------------
\* Inputs of the stage functions: the parsed rows from which the behaviour
\* of inspectData and preprocessData is followed for every kind of row,
\* header and token.

T_AIGenerated == <<"A","I"," ","g","e","n","e","r","a","t","e","d"," ","s","p","a","m">>

T_Constructor == <<"c","o","n","s","t","r","u","c","t","o","r"," ","a","i">>

T_PizzaAgain == <<"p","i","z","z","a"," ","I"," ","l","o","v","e"," ","p","i","z","z","a">>

\* the values the parser can put in a text field: strings (one with
\* surrounding blanks, a blank one, an empty one), a number, null
TextValues == {Str(T_ILovePizza), Str(T_AISpam), Str(<<" ">>), Str(<<>>), Num(5), Null}

\* the values the parser can put in a label field
LabelValues ==
  {Num(0), Num(1), Num(2), Str(<<"1">>), Str(<<" ","0">>), Str(<<"1",".","0">>), Str(T_Yes), Null}

\* one row under the headers text,label; a short line lacks its last field
\* or, under the headers label,text, its text
StageRows ==
  {<<Field(H_text, t), Field(H_label, l)>> : t \in TextValues, l \in LabelValues}
    \cup {<<Field(H_text, t)>> : t \in TextValues}
    \cup {<<Field(H_label, l)>> : l \in LabelValues}

H_content == <<"c","o","n","t","e","n","t">>

H_class == <<"c","l","a","s","s">>

H_id == <<"i","d">>

\* the header lines of the training file, the first row's keys in order:
\* " Text ","LABEL" in double quotes; label,text; content,class; an empty
\* header before content,class; class,text; label,content; content alone;
\* id,te'xt,label; id,' text ',label
StageHeaders ==
  {<<<<" ","T","e","x","t"," ">>, <<"\"","L","A","B","E","L","\"">>>>,
   <<H_label, H_text>>, <<H_content, H_class>>, <<<<>>, H_content, H_class>>,
   <<H_class, H_text>>, <<H_label, H_content>>, <<H_content>>,
   <<H_id, <<"t","e","'","x","t">>, H_label>>,
   <<H_id, <<"'"," ","t","e","x","t"," ","'">>, H_label>>}

\* a one-row training file under each header line, the values of its
\* columns taken by position
StageHeaderData ==
  LET values == <<Str(T_ILovePizza), Num(1), Str(<<"0">>)>>
  IN {<< [i \in 1..Len(h) |-> Field(h[i], values[i])] >> : h \in StageHeaders}

\* the texts of the training rows from which vocabularies are built
StageTexts == {T_ILovePizza, T_AIGenerated, T_AISpam, T_Constructor, T_PizzaAgain}

\* training files of one or two valid rows
StageTextData ==
  {<< <<Field(H_text, Str(t)), Field(H_label, Num(1))>> >> : t \in StageTexts}
    \cup {<< <<Field(H_text, Str(t)), Field(H_label, Num(1))>>,
             <<Field(H_text, Str(u)), Field(H_label, Num(0))>> >> : t \in StageTexts, u \in StageTexts}

\* the parsed rows of the training file
StageTraining == {<<r>> : r \in StageRows} \cup StageHeaderData \cup StageTextData

\* headers text,label; one valid row, one row with label "yes", one with blank text
DataMixed ==
  << <<Field(H_text, Str(T_Unseen)), Field(H_label, Str(<<"1">>))>>,
     <<Field(H_text, Str(T_ILovePizza)), Field(H_label, Str(T_Yes))>>,
     <<Field(H_text, Str(<<" ">>)), Field(H_label, Num(1))>> >>

\* the parsed rows of the testing file: rows that are all valid, or rows of
\* which some are not
StageTesting == {DataA, DataMixed}

----------------------------------------------------------------------------
\* the file contents a user may offer for each role, by name
FileContents(role) ==
  IF role = "training" THEN {"empty", "A", "B"}
  ELSE IF role = "testing" THEN {"empty", "A"}
  ELSE {"A"}

\* results.data of the parser for a file with the given content
ParsedRows(content) ==
  IF content = "A" THEN DataA
  ELSE IF content = "B" THEN DataB
  ELSE DataEmpty

\* names a user may pick for a role that the validator must reject: a case
\* variant of the expected name and another role's expected name
WrongNames(role) ==
  IF role = "training" THEN {"Train.csv", "test.csv"}
  ELSE IF role = "testing" THEN {"TEST.csv", "train.csv"}
  ELSE {"validation.CSV", "train.csv"}

\* a File object, a handle on a name and a content; present = FALSE stands
\* for null
File(name, content) == [present |-> TRUE, name |-> name, content |-> content]

NoFile == [present |-> FALSE, name |-> "", content |-> ""]

\* an array-valued global that may still be null
NullRows == [isNull |-> TRUE, rows |-> <<>>]

Rows(rs) == [isNull |-> FALSE, rows |-> rs]

\* normalizedData[key]: null, an array of {text, label} rows, or the object
\* {features, labels} of two tensors (each given by its nested array)
NullData == [kind |-> "null", rows |-> <<>>, features |-> <<>>, labels |-> <<>>]

NormRows(rs) == [kind |-> "rows", rows |-> rs, features |-> <<>>, labels |-> <<>>]

Tensors(f, l) == [kind |-> "tensors", rows |-> <<>>, features |-> f, labels |-> l]

NullModel == [isNull |-> TRUE, inputDim |-> 0]

\* tf.sequential() with an embedding layer of the given inputDim
Model(inputDim) == [isNull |-> FALSE, inputDim |-> inputDim]

----------------------------------------------------------------------------
VARIABLES
  loadedFiles,     \* role -> accepted File or null
  rawParsedData,   \* role -> parsed rows or null
  normalizedData,  \* role -> null, normalized rows, or {features, labels} tensors
  model,           \* null or the compiled classifier
  wordIndex,       \* the vocabulary object, as its own entries in insertion order
  VOCAB_SIZE,
  step,            \* the step section showStep last made visible
  disabled,        \* button id -> its disabled property
  generalStatus,   \* what updateGeneralStatus last wrote
  inspectionMessage, \* what displayOutput last wrote to #inspectionMessage
  attempts,        \* the loadData invocations so far, with their callbacks
  awaiting,        \* kind -> number of awaited classifier promises outstanding
  inputTensor,     \* the sequence makePrediction last built for model.predict
  selections,      \* number of re-selections so far
  parseErrors,     \* number of parser error callbacks so far
  loadLimit,       \* the number of loadData invocations the behaviour is followed for
  tokenized        \* the token list simpleTokenizer last returned to a direct call

vars ==
  <<loadedFiles, rawParsedData, normalizedData, model, wordIndex, VOCAB_SIZE,
    step, disabled, generalStatus, inspectionMessage, attempts, awaiting, inputTensor,
    selections, parseErrors, loadLimit, tokenized>>

\* the stored artifacts of the stages after file selection
artifacts == <<rawParsedData, normalizedData, wordIndex, VOCAB_SIZE, model>>

----------------------------------------------------------------------------
\* Status area and button state.

Status(msg, bgColor, keys, n) == [msg |-> msg, bgColor |-> bgColor, keys |-> keys, n |-> n]

\* a displayOutput message: its kind and the number it mentions.  Of the
\* panes displayOutput writes, the model keeps #inspectionMessage; the other
\* panes are written and never read by any handler
Out(msg, n) == [msg |-> msg, n |-> n]

\* Object.values(loadedFiles).every(f => f !== null)
allFilesReady(lf) == \A k \in RoleSet : lf[k].present

\* a faulty variant of ProcessBtnDisabled that does not look at the accepted
\* files; C13 must not hold of it
ProcessBtnDisabledIgnoringFiles(lf, bgColor, enableProcess) ==
  \/ bgColor = "bg-yellow-100"
  \/ ~enableProcess

\* the value updateGeneralStatus gives processBtn.disabled
ProcessBtnDisabled(lf, bgColor, enableProcess) ==
  \/ ~allFilesReady(lf)
  \/ bgColor = "bg-yellow-100"
  \/ ~enableProcess

\* the disabled map after updateGeneralStatus(_, bgColor, _, enableProcess)
updateGeneralStatus(dis, lf, bgColor, enableProcess) ==
  [dis EXCEPT !["processBtn"] = ProcessBtnDisabled(lf, bgColor, enableProcess)]

\* the buttons' disabled attributes in the page markup: every stage button
\* waits for its predecessor stage
InitialDisabled == [b \in Buttons |-> TRUE]

\* the state after the script has run and DOMContentLoaded has been handled
Start(loads) ==
  /\ loadLimit = loads
  /\ loadedFiles = [k \in RoleSet |-> NoFile]
  /\ rawParsedData = [k \in RoleSet |-> NullRows]
  /\ normalizedData = [k \in RoleSet |-> NullData]
  /\ model = NullModel
  /\ wordIndex = <<>>
  /\ VOCAB_SIZE = 0
  /\ step = 1
  /\ disabled = InitialDisabled
  /\ generalStatus = Status("initial", "bg-gray-100", <<>>, 0)
  /\ inspectionMessage = Out("", 0)
  /\ attempts = <<>>
  /\ awaiting = [fit |-> 0, evaluate |-> 0, predict |-> 0]
  /\ inputTensor = <<>>
  /\ selections = 0
  /\ parseErrors = 0
  /\ tokenized = <<>>

Init == Start(MaxPipelineLoads)

InitLoad == Start(MaxLoads)

----------------------------------------------------------------------------
\* STEP 1: file selection and loading.

\* a faulty variant of NameMatches that compares without regard to letter
\* case; C11 must not hold of it
NameMatchesIgnoringCase(name, expectedName) ==
  \/ name = expectedName
  \/ <<name, expectedName>> \in {<<"Train.csv", "train.csv">>, <<"TEST.csv", "test.csv">>,
                                  <<"validation.CSV", "validation.csv">>}

\* file.name === mapping.expectedName
NameMatches(name, expectedName) == name = expectedName

\* a faulty variant of RejectFile that leaves the role's accepted file in
\* place; C12 must not hold of it
RejectFileKeepingPrevious(lf, role) == lf

\* loadedFiles[mapping.role] = null, on a name mismatch
RejectFile(lf, role) == [lf EXCEPT ![role] = NoFile]

\* handleFileChange for the input element id, with files[0] = file (NoFile
\* when the selection dialog was cancelled)
\* an acceptance that stores the file under every role
AcceptFileForEveryRole(lf, role, file) == [k \in RoleSet |-> file]

\* line 117: loadedFiles[mapping.id.replace('File', '')] = file
AcceptFile(lf, role, file) == [lf EXCEPT ![role] = file]

handleFileChange(id, file) ==
  LET mapping == fileMappings[id]
      role == mapping.role
      lf == IF NameMatches(file.name, mapping.expectedName)
              THEN AcceptFile(loadedFiles, role, file)
              ELSE RejectFile(loadedFiles, role)
      ready == allFilesReady(lf)
  IN /\ loadedFiles[role].present /\ file.present => selections < MaxReselections
     /\ selections' =
          IF loadedFiles[role].present /\ file.present THEN selections + 1 ELSE selections
     /\ IF ~file.present
          THEN UNCHANGED <<loadedFiles, disabled, generalStatus>>
          ELSE /\ loadedFiles' = lf
               /\ generalStatus' =
                    Status(IF ready THEN "filesReady" ELSE "filesMissing",
                           IF ready THEN "bg-green-100" ELSE "bg-gray-100", <<>>, 0)
               /\ disabled' =
                    updateGeneralStatus(disabled, lf,
                      IF ready THEN "bg-green-100" ELSE "bg-gray-100", ready)
     /\ UNCHANGED <<artifacts, step, inspectionMessage, loadLimit, tokenized, attempts,
                    awaiting, inputTensor, parseErrors>>

\* event.target.files[0] for the input element id: nothing, a file under the
\* expected name, or a file under a name the validator must reject
SelectableFiles(id) ==
  {NoFile}
    \cup {File(fileMappings[id].expectedName, c) : c \in FileContents(fileMappings[id].role)}
    \cup {File(n, "A") : n \in WrongNames(fileMappings[id].role)}

HandleFileChange ==
  \E id \in InputIds : \E file \in SelectableFiles(id) : handleFileChange(id, file)

\* the roles for which loadData reaches Papa.parse: forEach stops at the
\* first null file, on which the parser call throws
Dispatched(lf) ==
  {Keys[i] : i \in {j \in 1..Len(Keys) : \A h \in 1..j : lf[Keys[h]].present}}

\* a faulty variant of AllParsed, in which the barrier opens at the second
\* completion; C3 must not hold of it
AllParsedAfterTwo(filesParsed) == filesParsed >= Len(Keys) - 1

\* filesParsed === keys.length
AllParsed(filesParsed) == filesParsed = Len(Keys)

\* the roles whose file yields zero rows in an attempt
ZeroRowRoles(att) == {k \in RoleSet : Len(ParsedRows(att.files[k].content)) = 0}

\* an attempt that has failed: a parse of it reported an error, or all three
\* completed and a role yielded zero rows
FailedAttempt(att) ==
  att.errored # {} \/ (AllParsed(att.filesParsed) /\ ZeroRowRoles(att) # {})

\* loadData(): the click handler of processBtn.  An attempt keeps the files
\* its parses were dispatched on, its closure variable filesParsed, the roles
\* whose callback is outstanding and the roles whose parse reported an error;
\* for stating what an attempt leaves behind it also keeps the rows stored
\* when it started and whether an earlier attempt had failed by then
loadData ==
  /\ ~disabled["processBtn"]
  /\ Len(attempts) < loadLimit
  /\ generalStatus' = Status("parsing", "bg-yellow-100", <<>>, 0)
  /\ disabled' = updateGeneralStatus(disabled, loadedFiles, "bg-yellow-100", FALSE)
  /\ attempts' = Append(attempts,
       [files |-> loadedFiles, filesParsed |-> 0,
        pending |-> Dispatched(loadedFiles), errored |-> {},
        rowsAtStart |-> rawParsedData,
        afterFailure |-> \E b \in 1..Len(attempts) : FailedAttempt(attempts[b])])
  /\ UNCHANGED <<loadedFiles, artifacts, step, inspectionMessage, loadLimit, tokenized,
                 awaiting, inputTensor, selections, parseErrors>>

\* keys.filter(key => rawParsedData[key].length === 0)
emptyKeys(raw) == SelectSeq(Keys, LAMBDA k : Len(raw[k].rows) = 0)

\* what the complete callback stores for results.data
StoredRows(data) == Rows(data)

\* the complete callback of attempt a for role key
ParseComplete(a, key) ==
  LET att == attempts[a]
      raw == [rawParsedData EXCEPT ![key] = StoredRows(ParsedRows(att.files[key].content))]
      fp == att.filesParsed + 1
      empties == emptyKeys(raw)
  IN /\ key \in att.pending
     /\ rawParsedData' = raw
     /\ attempts' = [attempts EXCEPT ![a].filesParsed = fp,
                                     ![a].pending = att.pending \ {key}]
     /\ IF ~AllParsed(fp) \/ (\E k \in RoleSet : raw[k].isNull)
          \* fewer than three completions, or .length of a null entry throws
          \* in the filter of line 159: nothing more runs
          THEN UNCHANGED <<generalStatus, disabled, step>>
          ELSE IF Len(empties) > 0
            THEN /\ generalStatus' = Status("zeroRows", "bg-red-100", empties, 0)
                 /\ disabled' = updateGeneralStatus(disabled, loadedFiles, "bg-red-100", TRUE)
                 /\ step' = 1
            ELSE /\ generalStatus' =
                      Status("parsed", "bg-green-100", <<>>, Len(raw["training"].rows))
                 /\ disabled' = [updateGeneralStatus(disabled, loadedFiles, "bg-green-100", TRUE)
                                   EXCEPT !["inspectBtn"] = FALSE]
                 /\ step' = 2
     /\ UNCHANGED <<loadedFiles, normalizedData, wordIndex, VOCAB_SIZE, model,
                    inspectionMessage, loadLimit, tokenized, awaiting, inputTensor, selections, parseErrors>>

\* a faulty variant of CountAfterError, in which a parse error counts as a
\* parsed file; C4 must not hold of it
CountAfterErrorAsParsed(filesParsed) == filesParsed + 1

\* filesParsed after an error callback: lines 178-180 do not count the file
CountAfterError(filesParsed) == filesParsed

\* the error callback of attempt a for role key
ParseError(a, key) ==
  LET att == attempts[a]
  IN /\ key \in att.pending
     /\ parseErrors < MaxParseErrors
     /\ parseErrors' = parseErrors + 1
     /\ attempts' = [attempts EXCEPT ![a].filesParsed = CountAfterError(att.filesParsed),
                                     ![a].pending = att.pending \ {key},
                                     ![a].errored = att.errored \cup {key}]
     /\ generalStatus' = Status("parseError", "bg-red-100", <<key>>, 0)
     /\ disabled' = updateGeneralStatus(disabled, loadedFiles, "bg-red-100", TRUE)
     /\ UNCHANGED <<loadedFiles, artifacts, step, inspectionMessage, loadLimit, tokenized,
                    awaiting, inputTensor, selections>>

ParserCallback ==
  \E a \in 1..Len(attempts) : \E key \in RoleSet :
    ParseComplete(a, key) \/ ParseError(a, key)

----------------------------------------------------------------------------
\* STEP 2: inspection and normalisation.

\* a column key held in a variable: a header string, or undefined
Key(k) == [def |-> TRUE, k |-> k]

NoKey == [def |-> FALSE, k |-> <<>>]

\* the property name a key is converted to in row[key]
PropertyName(key) ==
  IF key.def THEN key.k ELSE <<"u","n","d","e","f","i","n","e","d">>

\* Object.keys(row)
ObjectKeys(row) == [i \in 1..Len(row) |-> row[i].k]

\* row[key]: the value of the own property, or undefined
Get(row, key) ==
  IF \E i \in 1..Len(row) : row[i].k = PropertyName(key)
    THEN row[CHOOSE i \in 1..Len(row) : row[i].k = PropertyName(key)].v
    ELSE Undefined

\* String(k).toLowerCase().trim().replace(/['"]/g, '')
NormalizeHeader(k) == RemoveChars(trim(toLowerCase(k)), {"'", "\""})

\* rowKeys.find(k => NormalizeHeader(k) === target)
FindHeader(rowKeys, target) ==
  IF \E i \in 1..Len(rowKeys) : NormalizeHeader(rowKeys[i]) = target
    THEN Key(rowKeys[CHOOSE i \in 1..Len(rowKeys) :
                       /\ NormalizeHeader(rowKeys[i]) = target
                       /\ \A j \in 1..(i - 1) : NormalizeHeader(rowKeys[j]) # target])
    ELSE NoKey

\* Object.keys(firstRow).filter(k => String(k).trim().length > 0)
NonEmptyHeaders(rowKeys) == SelectSeq(rowKeys, LAMBDA k : Len(trim(k)) > 0)

\* keys[i] of an array: undefined beyond its length
At(keys, i) == IF i <= Len(keys) THEN Key(keys[i]) ELSE NoKey

\* a key is falsy when it is undefined or the empty string
Falsy(key) == ~key.def \/ key.k = <<>>

\* lines 201-213: the text and label keys taken from the first training row
InferColumns(firstRow) ==
  LET rowKeys == ObjectKeys(firstRow)
      found == [textKey |-> FindHeader(rowKeys, H_text),
                labelKey |-> FindHeader(rowKeys, H_label)]
      keys == NonEmptyHeaders(rowKeys)
  IN IF Falsy(found.textKey) \/ Falsy(found.labelKey)
       THEN [textKey |-> IF Falsy(found.textKey) THEN At(keys, 1) ELSE found.textKey,
             labelKey |-> IF Falsy(found.labelKey) THEN At(keys, 2) ELSE found.labelKey,
             inferred |-> TRUE]
       ELSE [textKey |-> found.textKey, labelKey |-> found.labelKey, inferred |-> FALSE]

\* a faulty variant of CoerceLabel that takes every number as a label; C14
\* must not hold of it
CoerceLabelAnyNumber(rawLabel) ==
  IF rawLabel.t = "number"
    THEN [ok |-> TRUE, label |-> rawLabel.n]
  ELSE IF rawLabel.t = "string" /\ trim(rawLabel.s) = <<"0">>
    THEN [ok |-> TRUE, label |-> 0]
  ELSE IF rawLabel.t = "string" /\ trim(rawLabel.s) = <<"1">>
    THEN [ok |-> TRUE, label |-> 1]
  ELSE [ok |-> FALSE, label |-> 0]

\* lines 236-248: the label, or null (ok = FALSE)
CoerceLabel(rawLabel) ==
  IF rawLabel.t = "number" /\ rawLabel.n \in {0, 1}
    THEN [ok |-> TRUE, label |-> rawLabel.n]
  ELSE IF rawLabel.t = "string" /\ trim(rawLabel.s) = <<"0">>
    THEN [ok |-> TRUE, label |-> 0]
  ELSE IF rawLabel.t = "string" /\ trim(rawLabel.s) = <<"1">>
    THEN [ok |-> TRUE, label |-> 1]
  ELSE [ok |-> FALSE, label |-> 0]

\* line 251: the row is excluded
IsInvalidRow(text, coerced) ==
  text.t # "string" \/ Len(trim(text.s)) = 0 \/ ~coerced.ok

\* a {text, label} row
NormalizedRow(text, label) == [text |-> text, label |-> label]

RECURSIVE NormalizeRows(_, _, _)
\* dataToNormalize.map(...).filter(row => row !== null)
NormalizeRows(rows, textKey, labelKey) ==
  IF rows = <<>> THEN <<>>
  ELSE LET text == Get(Head(rows), textKey)
           coerced == CoerceLabel(Get(Head(rows), labelKey))
           rest == NormalizeRows(Tail(rows), textKey, labelKey)
       IN IF IsInvalidRow(text, coerced) THEN rest
          ELSE <<NormalizedRow(trim(text.s), coerced.label)>> \o rest

RECURSIVE CountInvalidRowsByLabel(_, _, _)
\* a faulty variant of CountInvalidRows that counts the rows excluded for
\* their label only; C15 must not hold of it
CountInvalidRowsByLabel(rows, textKey, labelKey) ==
  IF rows = <<>> THEN 0
  ELSE (IF ~CoerceLabel(Get(Head(rows), labelKey)).ok THEN 1 ELSE 0)
       + CountInvalidRowsByLabel(Tail(rows), textKey, labelKey)

RECURSIVE CountInvalidRows(_, _, _)
\* the value of invalidRows after the map over one role's rows
CountInvalidRows(rows, textKey, labelKey) ==
  IF rows = <<>> THEN 0
  ELSE (IF IsInvalidRow(Get(Head(rows), textKey), CoerceLabel(Get(Head(rows), labelKey)))
          THEN 1 ELSE 0)
       + CountInvalidRows(Tail(rows), textKey, labelKey)

\* the keys the forEach of line 229 gets through: it throws on the first
\* role whose parsed rows are still null
NormalizedKeys(raw) ==
  {Keys[i] : i \in {j \in 1..Len(Keys) : \A h \in 1..j : ~raw[Keys[h]].isNull}}

RECURSIVE SumOver(_, _)
SumOver(f, S) ==
  IF S = {} THEN 0
  ELSE LET x == CHOOSE y \in S : TRUE IN f[x] + SumOver(f, S \ {x})

\* The row lists the parser can deliver in this model, and the values the
\* functions above take on them, computed once.
KnownRows == {ParsedRows(c) : c \in {"empty", "A", "B"}} \cup StageTraining \cup StageTesting

InferColumnsOf == [firstRow \in {rows[1] : rows \in KnownRows \ {<<>>}} |-> InferColumns(firstRow)]

KnownColumns == {InferColumnsOf[firstRow] : firstRow \in DOMAIN InferColumnsOf}

NormalizeRowsOf ==
  [rows \in KnownRows, cols \in KnownColumns |->
     NormalizeRows(rows, cols.textKey, cols.labelKey)]

CountInvalidRowsOf ==
  [rows \in KnownRows, cols \in KnownColumns |->
     CountInvalidRows(rows, cols.textKey, cols.labelKey)]

\* a faulty variant of TrainingEmpty that also turns away a training set of
\* one row; C16 must not hold of it
TrainingEmptyOrSingle(rawData) == rawData.isNull \/ Len(rawData.rows) <= 1

\* !rawData || rawData.length === 0
TrainingEmpty(rawData) == rawData.isNull \/ Len(rawData.rows) = 0

\* inspectData(): the click handler of inspectBtn
inspectData ==
  LET rawData == rawParsedData["training"]
      cols == InferColumnsOf[rawData.rows[1]]
      done == NormalizedKeys(rawParsedData)
      invalid == [k \in RoleSet |-> CountInvalidRowsOf[rawParsedData[k].rows, cols]]
      totalInvalidRows == SumOver(invalid, RoleSet)
      norm == [k \in RoleSet |->
                 IF k \in done
                   THEN NormRows(NormalizeRowsOf[rawParsedData[k].rows, cols])
                   ELSE normalizedData[k]]
      bgColor == IF totalInvalidRows > 0 THEN "bg-yellow-100" ELSE "bg-green-100"
  IN /\ ~disabled["inspectBtn"]
     /\ IF TrainingEmpty(rawData)
          THEN /\ inspectionMessage' = Out("emptyTraining", 0)
               /\ UNCHANGED <<normalizedData, generalStatus, disabled, step>>
          ELSE /\ normalizedData' = norm
               /\ inspectionMessage' =
                    Out(IF cols.inferred THEN "inferredColumns" ELSE "columns", Len(rawData.rows))
               /\ IF done # RoleSet
                    \* the map over a null role throws: nothing after line 233 runs
                    THEN UNCHANGED <<generalStatus, disabled, step>>
                    ELSE /\ generalStatus' =
                              Status(IF totalInvalidRows > 0 THEN "excluded" ELSE "clean",
                                     bgColor, <<>>, totalInvalidRows)
                         /\ disabled' =
                              [updateGeneralStatus(disabled, loadedFiles, bgColor, FALSE)
                                 EXCEPT !["preprocessBtn"] = FALSE]
                         /\ step' = 3
     /\ UNCHANGED <<loadedFiles, rawParsedData, wordIndex, VOCAB_SIZE, model,
                    attempts, awaiting, inputTensor, selections, parseErrors, loadLimit, tokenized>>

----------------------------------------------------------------------------
\* STEP 3: vocabulary.

W_PAD == <<"<","P","A","D",">">>

W_OOV == <<"<","O","O","V",">">>

\* the lower-case, punctuation-free property names every object inherits
\* from Object.prototype (their values are functions, hence truthy)
InheritedNames == {<<"c","o","n","s","t","r","u","c","t","o","r">>}

\* the value a sequence holds where an index was expected but the lookup
\* returned an inherited function
FunctionObject == -1

\* one own property of the vocabulary object
Entry(word, index) == [word |-> word, index |-> index]

\* a table that is reset only the first time and extended afterwards
ReservedEntriesOrPrevious ==
  IF wordIndex = <<>> THEN <<Entry(W_PAD, 0), Entry(W_OOV, 1)>> ELSE wordIndex

\* wordIndex = { '<PAD>': 0, '<OOV>': 1 }
ReservedEntries == <<Entry(W_PAD, 0), Entry(W_OOV, 1)>>

\* the first index preprocessData gives to a training token (line 321)
FirstIndex == 2

HasOwn(wi, word) == \E i \in 1..Len(wi) : wi[i].word = word

OwnIndex(wi, word) == wi[CHOOSE i \in 1..Len(wi) : wi[i].word = word].index

\* the truthiness of wordIndex[word]
Truthy(wi, word) ==
  IF HasOwn(wi, word) THEN OwnIndex(wi, word) # 0 ELSE word \in InheritedNames

RECURSIVE AddAll(_, _)
\* tokens.forEach(word => uniqueWords.add(word)): a Set keeps insertion order
AddAll(uniqueWords, tokens) ==
  IF tokens = <<>> THEN uniqueWords
  ELSE AddAll(IF \E i \in 1..Len(uniqueWords) : uniqueWords[i] = Head(tokens)
                THEN uniqueWords ELSE Append(uniqueWords, Head(tokens)),
              Tail(tokens))

RECURSIVE UniqueWords(_, _)
\* the Set after the forEach over the training rows (lines 314-318)
UniqueWords(rows, uniqueWords) ==
  IF rows = <<>> THEN uniqueWords
  ELSE UniqueWords(Tail(rows), AddAll(uniqueWords, simpleTokenizer(Str(Head(rows).text))))

RECURSIVE AssignIndices(_, _, _)
\* lines 323-327: [wordIndex, index] after the forEach over uniqueWords
AssignIndices(words, wi, index) ==
  IF words = <<>> THEN [wordIndex |-> wi, index |-> index]
  ELSE IF ~Truthy(wi, Head(words))
    THEN AssignIndices(Tail(words), Append(wi, Entry(Head(words), index)), index + 1)
    ELSE AssignIndices(Tail(words), wi, index)

\* lines 313-329: the vocabulary and VOCAB_SIZE built from the training rows
BuildVocabulary(trainingRows) ==
  AssignIndices(UniqueWords(trainingRows, <<>>), ReservedEntries, FirstIndex)

\* the normalized row lists of this model and their vocabularies, computed once
KnownNormalizedRows == {<<>>} \cup {NormalizeRowsOf[x] : x \in DOMAIN NormalizeRowsOf}

BuildVocabularyOf == [rows \in KnownNormalizedRows |-> BuildVocabulary(rows)]

KnownWordIndexes ==
  {<<>>} \cup {BuildVocabularyOf[rows].wordIndex : rows \in KnownNormalizedRows}

\* preprocessData(): the click handler of preprocessBtn
preprocessData ==
  LET training == normalizedData["training"]
      built == BuildVocabularyOf[training.rows]
  IN /\ ~disabled["preprocessBtn"]
     /\ IF training.kind # "rows"
          \* forEach is missing on null and on the tensors object: TypeError
          THEN /\ disabled' = [disabled EXCEPT !["preprocessBtn"] = TRUE]
               /\ UNCHANGED <<wordIndex, VOCAB_SIZE, step>>
          ELSE /\ wordIndex' = built.wordIndex
               /\ VOCAB_SIZE' = built.index
               /\ disabled' = [disabled EXCEPT !["preprocessBtn"] = TRUE,
                                               !["embeddingBtn"] = FALSE]
               /\ step' = 4
     /\ UNCHANGED <<loadedFiles, rawParsedData, normalizedData, model, generalStatus,
                    inspectionMessage, loadLimit, tokenized, attempts, awaiting, inputTensor, selections,
                    parseErrors>>

----------------------------------------------------------------------------
\* STEP 4: sequences and tensors.

\* wordIndexMap[word] || 1
IndexOrOOV(wi, word) ==
  IF HasOwn(wi, word)
    THEN (IF OwnIndex(wi, word) # 0 THEN OwnIndex(wi, word) ELSE 1)
  ELSE IF word \in InheritedNames THEN FunctionObject
  ELSE 1

\* if (sequence.length > maxLength) sequence = sequence.slice(0, maxLength)
Truncate(sequence, maxLength) ==
  IF Len(sequence) > maxLength THEN SubSeq(sequence, 1, maxLength) ELSE sequence

\* while (sequence.length < maxLength) sequence.push(0)
Pad(sequence, maxLength) ==
  IF Len(sequence) < maxLength
    THEN sequence \o [i \in 1..(maxLength - Len(sequence)) |-> 0]
    ELSE sequence

\* processTextToSequence (lines 354-368); text is a JavaScript value
processTextToSequence(text, wordIndexMap, maxLength) ==
  LET tokens == simpleTokenizer(text)
      sequence == [i \in 1..Len(tokens) |-> IndexOrOOV(wordIndexMap, tokens[i])]
  IN Pad(Truncate(sequence, maxLength), maxLength)

\* the {features, labels} tensors of one role (lines 374-380)
EncodeRows(rows, wi) ==
  Tensors([i \in 1..Len(rows) |->
             processTextToSequence(Str(rows[i].text), wi, MAX_SEQUENCE_LENGTH)],
          [i \in 1..Len(rows) |-> rows[i].label])

\* the tensors of this model's normalized row lists, computed once
EncodeRowsOf ==
  [rows \in KnownNormalizedRows, wi \in KnownWordIndexes |-> EncodeRows(rows, wi)]

\* createEmbeddings(): the click handler of embeddingBtn; tensorFails tells
\* whether a tf.tensor2d call throws
\* a catch block that leaves the button as line 348 set it
EmbeddingFailedKeepsDisabled(d) == [d EXCEPT !["embeddingBtn"] = TRUE]

\* the catch block of createEmbeddings (lines 396-399) on the buttons
EmbeddingFailed(d) == [d EXCEPT !["embeddingBtn"] = FALSE]

createEmbeddings(tensorFails) ==
  LET throws == tensorFails \/ \E k \in RoleSet : normalizedData[k].kind # "rows"
  IN /\ ~disabled["embeddingBtn"]
     /\ IF throws
          THEN /\ disabled' = EmbeddingFailed(disabled)
               /\ UNCHANGED <<normalizedData, step>>
          ELSE /\ normalizedData' =
                    [k \in RoleSet |-> EncodeRowsOf[normalizedData[k].rows, wordIndex]]
               /\ disabled' = [disabled EXCEPT !["embeddingBtn"] = TRUE,
                                               !["createModelBtn"] = FALSE]
               /\ step' = 5
     /\ UNCHANGED <<loadedFiles, rawParsedData, wordIndex, VOCAB_SIZE, model,
                    generalStatus, inspectionMessage, loadLimit, tokenized, attempts, awaiting, inputTensor,
                    selections, parseErrors>>

CreateEmbeddings == \E tensorFails \in BOOLEAN : createEmbeddings(tensorFails)

----------------------------------------------------------------------------
\* STEP 5: the classifier.

\* createModel(): the click handler of createModelBtn
createModel ==
  /\ ~disabled["createModelBtn"]
  /\ model' = Model(VOCAB_SIZE)
  /\ disabled' = [disabled EXCEPT !["createModelBtn"] = TRUE, !["trainModelBtn"] = FALSE]
  /\ step' = 6
  /\ UNCHANGED <<loadedFiles, rawParsedData, normalizedData, wordIndex, VOCAB_SIZE,
                 generalStatus, inspectionMessage, loadLimit, tokenized, attempts, awaiting, inputTensor,
                 selections, parseErrors>>

----------------------------------------------------------------------------
\* STEP 6: training.  model.fit is awaited: the handler returns at the await
\* and its continuation runs when the promise settles.

\* line 455: the guard of trainModel fails
TrainNotReady ==
  model.isNull \/ normalizedData["training"].kind # "tensors"

\* trainModel() up to the await: the click handler of trainModelBtn
trainModel ==
  /\ ~disabled["trainModelBtn"]
  /\ IF TrainNotReady
       THEN UNCHANGED <<disabled, awaiting>>
       ELSE IF normalizedData["validation"].kind = "null"
         \* reading .features of null throws inside the try block; the catch
         \* block enables the button again
         THEN /\ disabled' = [disabled EXCEPT !["trainModelBtn"] = FALSE]
              /\ UNCHANGED awaiting
         ELSE /\ awaiting.fit < MaxAwait
              /\ disabled' = [disabled EXCEPT !["trainModelBtn"] = TRUE]
              /\ awaiting' = [awaiting EXCEPT !.fit = @ + 1]
  /\ UNCHANGED <<loadedFiles, artifacts, step, generalStatus, inspectionMessage, loadLimit,
                 tokenized,
                 attempts, inputTensor, selections, parseErrors>>

\* the continuation of trainModel after await model.fit(...); ok tells
\* whether the promise was fulfilled with a readable history
FitSettles(ok) ==
  /\ awaiting.fit > 0
  /\ awaiting' = [awaiting EXCEPT !.fit = @ - 1]
  /\ IF ok
       THEN /\ disabled' = [disabled EXCEPT !["evaluateBtn"] = FALSE]
            /\ step' = 7
       ELSE /\ disabled' = [disabled EXCEPT !["trainModelBtn"] = FALSE]
            /\ UNCHANGED step
  /\ UNCHANGED <<loadedFiles, artifacts, generalStatus, inspectionMessage, loadLimit,
                 tokenized, attempts,
                 inputTensor, selections, parseErrors>>

----------------------------------------------------------------------------
\* STEP 7: evaluation.

\* line 501: the guard of evaluateModel fails
EvaluateNotReady == model.isNull \/ normalizedData["validation"].kind = "null"

\* evaluateModel() up to the await: the click handler of evaluateBtn;
\* throws tells whether model.evaluate throws before the await
evaluateModel(throws) ==
  /\ ~disabled["evaluateBtn"]
  /\ IF EvaluateNotReady
       THEN UNCHANGED <<disabled, awaiting>>
       ELSE /\ disabled' = [disabled EXCEPT !["evaluateBtn"] = TRUE]
            /\ IF throws \/ normalizedData["validation"].kind # "tensors"
                 THEN UNCHANGED awaiting
                 ELSE /\ awaiting.evaluate < MaxAwait
                      /\ awaiting' = [awaiting EXCEPT !.evaluate = @ + 1]
  /\ UNCHANGED <<loadedFiles, artifacts, step, generalStatus, inspectionMessage, loadLimit,
                 tokenized,
                 attempts, inputTensor, selections, parseErrors>>

\* the continuation of evaluateModel after await Promise.all(...); a
\* rejection is not caught
EvaluateSettles(ok) ==
  /\ awaiting.evaluate > 0
  /\ awaiting' = [awaiting EXCEPT !.evaluate = @ - 1]
  /\ IF ok
       THEN /\ disabled' = [disabled EXCEPT !["predictBtn"] = FALSE]
            /\ step' = 8
       ELSE UNCHANGED <<disabled, step>>
  /\ UNCHANGED <<loadedFiles, artifacts, generalStatus, inspectionMessage, loadLimit,
                 tokenized, attempts,
                 inputTensor, selections, parseErrors>>

----------------------------------------------------------------------------
\* STEP 8: prediction.

\* texts a user may type into predictionText
PredictionTexts == {<<" ">>, T_ILovePizza, T_Unseen, T_Constructor}

\* a prediction encoder that pads on the left and truncates from the left
PredictionSequenceLeftAligned(inputText, wi) ==
  LET tokens == simpleTokenizer(Str(inputText))
      sequence == [i \in 1..Len(tokens) |-> IndexOrOOV(wi, tokens[i])]
      kept == IF Len(sequence) > MAX_SEQUENCE_LENGTH
                THEN SubSeq(sequence, Len(sequence) - MAX_SEQUENCE_LENGTH + 1, Len(sequence))
                ELSE sequence
  IN [i \in 1..(MAX_SEQUENCE_LENGTH - Len(kept)) |-> 0] \o kept

\* lines 544-552: the sequence makePrediction builds for the typed text
PredictionSequence(inputText, wi) ==
  LET tokens == simpleTokenizer(Str(inputText))
      sequence == [i \in 1..Len(tokens) |-> IndexOrOOV(wi, tokens[i])]
  IN Pad(Truncate(sequence, MAX_SEQUENCE_LENGTH), MAX_SEQUENCE_LENGTH)

\* the sequences of the texts of this model, computed once
PredictionSequenceOf ==
  [inputText \in {trim(typed) : typed \in PredictionTexts}, wi \in KnownWordIndexes |->
     PredictionSequence(inputText, wi)]

\* makePrediction() up to the await: the click handler of predictBtn;
\* typed is the value of the text box, throws tells whether tf.tensor2d or
\* model.predict throws
makePrediction(typed, throws) ==
  LET inputText == trim(typed)
  IN /\ ~disabled["predictBtn"]
     /\ IF model.isNull \/ inputText = <<>>
          THEN UNCHANGED <<disabled, awaiting, inputTensor>>
          ELSE /\ disabled' = [disabled EXCEPT !["predictBtn"] = TRUE]
               /\ inputTensor' = PredictionSequenceOf[inputText, wordIndex]
               /\ IF throws
                    THEN UNCHANGED awaiting
                    ELSE /\ awaiting.predict < MaxAwait
                         /\ awaiting' = [awaiting EXCEPT !.predict = @ + 1]
     /\ UNCHANGED <<loadedFiles, artifacts, step, generalStatus, inspectionMessage, loadLimit,
                    tokenized,
                    attempts, selections, parseErrors>>

\* the continuation of makePrediction after await predictionTensor.data(); a
\* rejection is not caught
PredictSettles(ok) ==
  /\ awaiting.predict > 0
  /\ awaiting' = [awaiting EXCEPT !.predict = @ - 1]
  /\ IF ok
       THEN disabled' = [disabled EXCEPT !["predictBtn"] = FALSE]
       ELSE UNCHANGED disabled
  /\ UNCHANGED <<loadedFiles, artifacts, step, generalStatus, inspectionMessage, loadLimit,
                 tokenized,
                 attempts, inputTensor, selections, parseErrors>>

----------------------------------------------------------------------------
\* the awaited promises of the classifier settle
Settles ==
  \E ok \in BOOLEAN : FitSettles(ok) \/ EvaluateSettles(ok) \/ PredictSettles(ok)

EvaluateModel == \E throws \in BOOLEAN : evaluateModel(throws)

MakePrediction ==
  \E typed \in PredictionTexts : \E throws \in BOOLEAN : makePrediction(typed, throws)

Next ==
  \/ HandleFileChange
  \/ loadData
  \/ ParserCallback
  \/ inspectData
  \/ preprocessData
  \/ CreateEmbeddings
  \/ createModel
  \/ trainModel
  \/ EvaluateModel
  \/ MakePrediction
  \/ Settles

Spec == Init /\ [][Next]_vars

\* the file selection and loading stage alone
NextLoad ==
  \/ HandleFileChange
  \/ loadData
  \/ ParserCallback

SpecLoad == InitLoad /\ [][NextLoad]_vars

\* the parser delivers one callback, complete or error, for every parse that
\* loadData dispatched
ParserDelivers ==
  \A a \in 1..MaxLoads : \A key \in RoleSet :
    WF_vars(a <= Len(attempts) /\ (ParseComplete(a, key) \/ ParseError(a, key)))

SpecLoadLive == InitLoad /\ [][NextLoad]_vars /\ ParserDelivers

\* The inspection and vocabulary stages, followed from the state a load
\* that succeeded leaves (lines 172-175), for each choice of parsed rows.
InitStages ==
  /\ loadLimit = 0
  /\ loadedFiles = [k \in RoleSet |-> File(REQUIRED_FILES[k], "rows")]
  /\ \E training \in StageTraining : \E testing \in StageTesting :
       rawParsedData =
         [k \in RoleSet |->
            Rows(IF k = "training" THEN training ELSE IF k = "testing" THEN testing ELSE DataA)]
  /\ normalizedData = [k \in RoleSet |-> NullData]
  /\ model = NullModel
  /\ wordIndex = <<>>
  /\ VOCAB_SIZE = 0
  /\ step = 2
  /\ disabled = [InitialDisabled EXCEPT !["processBtn"] = FALSE, !["inspectBtn"] = FALSE]
  /\ generalStatus = Status("parsed", "bg-green-100", <<>>, Len(rawParsedData["training"].rows))
  /\ inspectionMessage = Out("", 0)
  /\ attempts = <<>>
  /\ awaiting = [fit |-> 0, evaluate |-> 0, predict |-> 0]
  /\ inputTensor = <<>>
  /\ selections = 0
  /\ parseErrors = 0
  /\ tokenized = <<>>

NextStages == inspectData \/ preprocessData

SpecStages == InitStages /\ [][NextStages]_vars

\* The sequence encoder and the prediction stage, followed from the state a
\* run of the pipeline that reached step 8 leaves, for each choice of
\* training and testing rows.

\* the values of maxLength the encoder is followed for
EncoderLengths == {0, 2, 3, 5, MAX_SEQUENCE_LENGTH}

\* the texts the encoder is followed for
EncoderTexts == StageTexts \cup {T_Unseen}

\* a call processTextToSequence(text, wordIndex, maxLength) of the encoder
\* of createEmbeddings (lines 354-368); inputTensor holds the sequence built
EncodeText(text, maxLength) ==
  /\ inputTensor' = processTextToSequence(Str(text), wordIndex, maxLength)
  /\ UNCHANGED <<loadedFiles, artifacts, step, disabled, generalStatus, inspectionMessage,
                 attempts, awaiting, selections, parseErrors, loadLimit, tokenized>>

InitEncoder ==
  /\ loadLimit = 0
  /\ loadedFiles = [k \in RoleSet |-> File(REQUIRED_FILES[k], "rows")]
  /\ \E training \in StageTextData : \E testing \in StageTesting :
       LET raw == [k \in RoleSet |->
                     IF k = "training" THEN training ELSE IF k = "testing" THEN testing ELSE DataA]
           cols == InferColumnsOf[training[1]]
           built == BuildVocabularyOf[NormalizeRowsOf[training, cols]]
       IN /\ rawParsedData = [k \in RoleSet |-> Rows(raw[k])]
          /\ wordIndex = built.wordIndex
          /\ VOCAB_SIZE = built.index
          /\ normalizedData =
               [k \in RoleSet |-> EncodeRowsOf[NormalizeRowsOf[raw[k], cols], built.wordIndex]]
          /\ generalStatus =
               LET n == SumOver([k \in RoleSet |-> CountInvalidRowsOf[raw[k], cols]], RoleSet)
               IN Status(IF n > 0 THEN "excluded" ELSE "clean",
                         IF n > 0 THEN "bg-yellow-100" ELSE "bg-green-100", <<>>, n)
          /\ inspectionMessage = Out("columns", Len(training))
  /\ model = Model(VOCAB_SIZE)
  /\ step = 8
  /\ disabled = [InitialDisabled EXCEPT !["inspectBtn"] = FALSE, !["predictBtn"] = FALSE]
  /\ attempts = <<>>
  /\ awaiting = [fit |-> 0, evaluate |-> 0, predict |-> 0]
  /\ inputTensor = <<>>
  /\ selections = 0
  /\ parseErrors = 0
  /\ tokenized = <<>>

NextEncoder ==
  \/ \E text \in EncoderTexts : \E maxLength \in EncoderLengths : EncodeText(text, maxLength)
  \/ MakePrediction
  \/ \E ok \in BOOLEAN : PredictSettles(ok)

SpecEncoder == InitEncoder /\ [][NextEncoder]_vars

----------------------------------------------------------------------------
\* The tokenizer, called directly on a text.

\* the longest generated text
MaxTextLen == 5

RECURSIVE TextsUpTo(_)
\* the texts of at most n characters over a letter, a capital, a blank and a
\* punctuation character
TextsUpTo(n) ==
  IF n = 0 THEN {<<>>}
  ELSE LET shorter == TextsUpTo(n - 1)
       IN shorter \cup {Append(t, c) : t \in shorter, c \in {"a", "B", " ", ","}}

T_HelloWorld == <<"H","e","l","l","o",","," ","W","o","r","l","d","!">>

\* the arguments simpleTokenizer is followed for: the generated texts, a text
\* with every character of the class of line 99 and with tabs and line ends
\* between words, a number, null
TokenizerInputs ==
  {Str(t) : t \in TextsUpTo(MaxTextLen) \cup {T_HelloWorld, T_AISpam}}
    \cup {Str(<<"a", ".", ",", "/", "#", "!", "$", "%", "^", "&", "*", ";", ":", "{", "}",
                "=", "-", "_", Grave, "~", "(", ")", "b", "\t", "C", "\r", "\n", "d", " ">>),
          Num(5), Null}

\* the token lists of these arguments, computed once
simpleTokenizerOf == [text \in TokenizerInputs |-> simpleTokenizer(text)]

\* a call simpleTokenizer(text) (lines 96-101); tokenized holds what it returns
Tokenize(text) ==
  /\ tokenized' = simpleTokenizerOf[text]
  /\ UNCHANGED <<loadedFiles, artifacts, step, disabled, generalStatus, inspectionMessage,
                 attempts, awaiting, inputTensor, selections, parseErrors, loadLimit>>

NextTokenizer == \E text \in TokenizerInputs : Tokenize(text)

SpecTokenizer == Start(0) /\ [][NextTokenizer]_vars

----------------------------------------------------------------------------
\* The variant src/app.js.  Its globals are held in the same variables, its
\* rawData in rawParsedData; it validates the rows when it stores them and
\* builds the vocabulary from the stored rows.

\* the filter of the complete callback (src/app.js, lines 148-152)
KeepsRowApp(d) ==
  LET text == Get(d, Key(H_text))
      label == Get(d, Key(H_label))
  IN /\ text.t \notin {"undefined", "null"}
     /\ label.t \notin {"undefined", "null"}
     /\ \/ label.t = "number" /\ label.n \in {0, 1}
        \/ label.t = "string" /\ label.s \in {<<"0">>, <<"1">>}

\* rawData[key] = results.data.filter(...)
StoredRowsApp(data) == Rows(SelectSeq(data, KeepsRowApp))

\* the first index preprocessData of src/app.js gives to a training token
FirstIndexApp == 1

RECURSIVE UniqueWordsApp(_, _)
\* the Set after the forEach over rawData.training (src/app.js, lines 229-233)
UniqueWordsApp(rows, uniqueWords) ==
  IF rows = <<>> THEN uniqueWords
  ELSE UniqueWordsApp(Tail(rows),
                      AddAll(uniqueWords, simpleTokenizer(Get(Head(rows), Key(H_text)))))

\* src/app.js, lines 229-244: the vocabulary and VOCAB_SIZE
BuildVocabularyApp(trainingRows) ==
  AssignIndices(UniqueWordsApp(trainingRows, <<>>), ReservedEntries, FirstIndexApp)

\* inspectData() of src/app.js
inspectDataApp ==
  LET data == rawParsedData["training"]
  IN /\ ~disabled["inspectBtn"]
     /\ IF data.isNull \/ Len(data.rows) = 0
          THEN /\ inspectionMessage' = Out("emptyTraining", 0)
               /\ UNCHANGED <<disabled, step>>
          ELSE /\ inspectionMessage' = Out("columns", Len(data.rows))
               /\ disabled' = [disabled EXCEPT !["preprocessBtn"] = FALSE]
               /\ step' = 3
     /\ UNCHANGED <<loadedFiles, artifacts, generalStatus, loadLimit, tokenized, attempts,
                    awaiting,
                    inputTensor, selections, parseErrors>>

\* preprocessData() of src/app.js
preprocessDataApp ==
  LET training == rawParsedData["training"]
      built == BuildVocabularyApp(training.rows)
  IN /\ ~disabled["preprocessBtn"]
     /\ IF training.isNull
          \* forEach of null throws
          THEN UNCHANGED <<wordIndex, VOCAB_SIZE, disabled, step>>
          ELSE /\ wordIndex' = built.wordIndex
               /\ VOCAB_SIZE' = built.index
               /\ disabled' = [disabled EXCEPT !["embeddingBtn"] = FALSE]
               /\ step' = 4
     /\ UNCHANGED <<loadedFiles, rawParsedData, normalizedData, model, generalStatus,
                    inspectionMessage, loadLimit, tokenized, attempts, awaiting, inputTensor, selections,
                    parseErrors>>

\* the state a load of src/app.js that succeeded leaves (lines 171-174), for
\* each choice of parsed rows of which every role keeps a row
InitApp ==
  /\ loadLimit = 0
  /\ loadedFiles = [k \in RoleSet |-> File(REQUIRED_FILES[k], "rows")]
  /\ \E training \in StageTraining : \E testing \in StageTesting :
       /\ rawParsedData =
            [k \in RoleSet |->
               StoredRowsApp(IF k = "training" THEN training
                             ELSE IF k = "testing" THEN testing ELSE DataA)]
       /\ \A k \in RoleSet : Len(rawParsedData[k].rows) > 0
  /\ normalizedData = [k \in RoleSet |-> NullData]
  /\ model = NullModel
  /\ wordIndex = <<>>
  /\ VOCAB_SIZE = 0
  /\ step = 2
  /\ disabled = [InitialDisabled EXCEPT !["inspectBtn"] = FALSE]
  /\ generalStatus = Status("parsed", "bg-green-100", <<>>, Len(rawParsedData["training"].rows))
  /\ inspectionMessage = Out("", 0)
  /\ attempts = <<>>
  /\ awaiting = [fit |-> 0, evaluate |-> 0, predict |-> 0]
  /\ inputTensor = <<>>
  /\ selections = 0
  /\ parseErrors = 0
  /\ tokenized = <<>>

NextApp == inspectDataApp \/ preprocessDataApp

SpecApp == InitApp /\ [][NextApp]_vars

----------------------------------------------------------------------------
\* Properties of the pipeline controller.

\* the load attempts made so far
Attempts == 1..Len(attempts)

\* in this step attempt a's filesParsed reaches n
Completes(a, n) == attempts[a].filesParsed = n - 1 /\ attempts'[a].filesParsed = n

\* in this step a callback of attempt a runs
CallbackOf(a) == attempts'[a].pending # attempts[a].pending

\* the attempts with a parser callback outstanding
InFlight == {a \in Attempts : attempts[a].pending # {}}

\* the statuses with which a load attempt reports its outcome
LoadReports == {"parsed", "zeroRows"}

\* what the stages after loading have produced
NoLaterArtifacts ==
  /\ wordIndex = <<>>
  /\ VOCAB_SIZE = 0
  /\ normalizedData = [k \in RoleSet |-> NullData]
  /\ model = NullModel

\* the artifacts by which a stage's predecessor shows that it has completed
LoadCompleted ==
  \A k \in RoleSet : ~rawParsedData[k].isNull /\ Len(rawParsedData[k].rows) > 0

InspectionCompleted == \A k \in RoleSet : normalizedData[k].kind = "rows"

VocabularyCompleted == wordIndex # <<>>

EmbeddingsCompleted == \A k \in RoleSet : normalizedData[k].kind = "tensors"

\* C1: the displayed step moves forward only by one, from k to k+1, and only
\* in a step of stage k's own action (the third completion of a load attempt
\* for k = 1, the settling of the awaited fit / evaluate for k = 6 and 7).
C1_StepAdvancesByOneStage ==
  [][step' > step =>
       /\ step' = step + 1
       /\ step = 1 => \E a \in Attempts : Completes(a, Len(Keys))
       /\ step = 2 => inspectData
       /\ step = 3 => preprocessData
       /\ step = 4 => CreateEmbeddings
       /\ step = 5 => createModel
       /\ step = 6 => FitSettles(TRUE)
       /\ step = 7 => EvaluateSettles(TRUE)]_vars

\* C2: a stage entry point invoked while its predecessor's artifacts do not
\* exist changes no pipeline artifact and does not change the displayed step
\* (stated for the stages whose predecessor leaves a stored artifact).
C2_NotReadyStageIsNoOp ==
  [][/\ (inspectData /\ ~LoadCompleted) => UNCHANGED <<artifacts, step>>
     /\ (preprocessData /\ ~InspectionCompleted) => UNCHANGED <<artifacts, step>>
     /\ (CreateEmbeddings /\ ~(InspectionCompleted /\ VocabularyCompleted))
          => UNCHANGED <<artifacts, step>>
     /\ (createModel /\ ~EmbeddingsCompleted) => UNCHANGED <<artifacts, step>>
     /\ (trainModel /\ (model.isNull \/ ~EmbeddingsCompleted))
          => UNCHANGED <<artifacts, step>>]_vars

\* C3: a completion callback that is the first or second of its attempt
\* changes neither the step nor the status nor any button; the step becomes 2,
\* and a load outcome is written, only in the step of an attempt's third
\* completion, when none of its callbacks is outstanding; while the only
\* attempt made has fewer than three completions the step is 1 and no load
\* outcome is shown.
C3_AdvanceAfterThreeCompletions ==
  /\ [](Len(attempts) = 1 /\ ~AllParsed(attempts[1].filesParsed)
          => step = 1 /\ generalStatus.msg \notin LoadReports)
  /\ [][/\ \A a \in Attempts :
             (\E n \in 1..(Len(Keys) - 1) : Completes(a, n))
               => UNCHANGED <<step, generalStatus, disabled>>
        /\ ((step' = 2 /\ step # 2)
              \/ (generalStatus' # generalStatus /\ generalStatus'.msg \in LoadReports))
             => \E a \in Attempts :
                  /\ Completes(a, Len(Keys))
                  /\ attempts'[a].pending = {}
                  /\ attempts'[a].errored = {}]_vars

\* an attempt has had two of its three completions, in whatever order, and
\* nothing has been reported
C3_Witness ==
  \E a \in Attempts :
    /\ attempts[a].filesParsed = 2
    /\ attempts[a].pending \in {{"training"}, {"testing"}}
    /\ step = 1
    /\ generalStatus.msg = "parsing"

\* C4: an attempt one of whose parses reported an error never counts three
\* completions; none of its callbacks changes the step, and each leaves the
\* status as it is or writes the parse error; while it is the only attempt
\* made the step is 1.
C4_ErrorNeverReportsSuccess ==
  /\ [](\A a \in Attempts :
          attempts[a].errored # {} =>
            /\ ~AllParsed(attempts[a].filesParsed)
            /\ Len(attempts) = 1 => step = 1)
  /\ [][\A a \in Attempts :
          (CallbackOf(a) /\ attempts'[a].errored # {}) =>
            /\ step' = step
            /\ generalStatus' = generalStatus \/ generalStatus'.msg = "parseError"]_vars

\* an attempt with a parse error has had all its callbacks, the error first,
\* and the error status stands
C4_Witness ==
  \E a \in Attempts :
    /\ attempts[a].errored # {}
    /\ attempts[a].pending = {}
    /\ attempts[a].filesParsed = 2
    /\ generalStatus.msg = "parseError"
    /\ step = 1

\* C5: whenever the displayed step is 2 or later every role's stored parsed
\* rows hold at least one row.
C5_RowsNonEmptyFromStep2 == step >= 2 => LoadCompleted

\* C6: the third completion of an attempt in which a role yielded zero rows
\* writes the zero-row report naming exactly the roles of that attempt with
\* zero rows, and shows step 1.
C6_ZeroRowReportNamesAllRoles ==
  [][\A a \in Attempts :
       (Completes(a, Len(Keys)) /\ ZeroRowRoles(attempts[a]) # {}) =>
         /\ generalStatus' =
              Status("zeroRows", "bg-red-100",
                     SelectSeq(Keys, LAMBDA k : k \in ZeroRowRoles(attempts[a])), 0)
         /\ step' = 1]_vars

\* C7: a failure report does not move the step forward and leaves the load
\* button enabled exactly when every role holds an accepted file; and the
\* third completion of an attempt made after a failed one, whose three files
\* each yield a row, reports success and shows step 2.
C7_RetryAfterFailureAdvances ==
  [][/\ (generalStatus' # generalStatus /\ generalStatus'.msg \in {"zeroRows", "parseError"})
          => /\ step' <= step
             /\ disabled'["processBtn"] = ~allFilesReady(loadedFiles')
     /\ \A a \in Attempts :
          (/\ Completes(a, Len(Keys))
           /\ ZeroRowRoles(attempts[a]) = {}
           /\ attempts[a].afterFailure)
            => step' = 2 /\ generalStatus'.msg = "parsed"]_vars

\* C8: while a load attempt has a parser callback outstanding the load button
\* is disabled, and at most one attempt has callbacks outstanding.
C8_LoadSerialized ==
  /\ InFlight # {} => disabled["processBtn"]
  /\ Cardinality(InFlight) <= 1

\* C9: when the last callback of a failed attempt has run, the stored parsed
\* rows of every role are those stored when the attempt started.
C9_FailedLoadKeepsRows ==
  [][\A a \in Attempts :
       (CallbackOf(a) /\ attempts'[a].pending = {} /\ FailedAttempt(attempts'[a]))
         => rawParsedData' = attempts[a].rowsAtStart]_vars

\* C10: a step that changes the accepted files or starts a load attempt, taken
\* when a later stage has produced artifacts, leaves the vocabulary, its size,
\* the normalized / encoded datasets and the classifier cleared.
C10_ReselectionClearsArtifacts ==
  [][((loadedFiles' # loadedFiles \/ Len(attempts') > Len(attempts)) /\ ~NoLaterArtifacts)
       => NoLaterArtifacts']_vars

\* the roles' fixed expected file names
ExpectedNameOf ==
  [training |-> "train.csv", testing |-> "test.csv", validation |-> "validation.csv"]

\* in this step the change handler of a role's input runs with a selected file
SelectionOf(id, file) == file.present /\ handleFileChange(id, file)

\* C11: a file-selection event with a selected file stores that file as the
\* role's accepted file if and only if the file's name is, character for
\* character, the role's expected name (train.csv, test.csv, validation.csv).
C11_AcceptsExactNameOnly ==
  [][\A id \in InputIds : \A file \in SelectableFiles(id) :
       SelectionOf(id, file) =>
         (loadedFiles'[fileMappings[id].role] = file
            <=> file.name = ExpectedNameOf[fileMappings[id].role])]_vars

\* every role holds a file under its expected name and the page reports the
\* files ready, after a re-selection
C11_Witness ==
  /\ \A k \in RoleSet :
       loadedFiles[k].present /\ loadedFiles[k].name = ExpectedNameOf[k]
  /\ generalStatus.msg = "filesReady"
  /\ selections = 1

\* C12: a file-selection event whose file does not carry the expected name
\* leaves the role without an accepted file, whatever it held before; and a
\* role comes to hold a file it did not hold only in the step of a selection
\* of that file under the expected name.
C12_MismatchClearsAcceptance ==
  [][/\ \A id \in InputIds : \A file \in SelectableFiles(id) :
          (SelectionOf(id, file) /\ file.name # ExpectedNameOf[fileMappings[id].role])
            => loadedFiles'[fileMappings[id].role] = NoFile
     /\ \A k \in RoleSet :
          (loadedFiles'[k].present /\ loadedFiles'[k] # loadedFiles[k]) =>
            \E id \in InputIds :
              /\ fileMappings[id].role = k
              /\ loadedFiles'[k].name = ExpectedNameOf[k]
              /\ SelectionOf(id, loadedFiles'[k])]_vars

\* a role whose accepted file a load attempt read holds no file any more: a
\* later selection for the role was rejected
C12_Witness ==
  \E a \in Attempts : \E k \in RoleSet :
    /\ attempts[a].files[k].present
    /\ ~loadedFiles[k].present
    /\ generalStatus.msg = "filesMissing"

\* C13: the load button is enabled only while each of the three roles holds
\* an accepted file; and a file-selection event with a selected file reports
\* the files ready, and enables the load button, exactly when after it each
\* of the three roles holds an accepted file.
C13_LoadEnabledOnlyWhenAllAccepted ==
  /\ [](~disabled["processBtn"] =>
          loadedFiles["training"].present /\ loadedFiles["testing"].present
            /\ loadedFiles["validation"].present)
  /\ [][\A id \in InputIds : \A file \in SelectableFiles(id) :
          SelectionOf(id, file) =>
            LET all == loadedFiles'["training"].present /\ loadedFiles'["testing"].present
                         /\ loadedFiles'["validation"].present
            IN /\ generalStatus'.msg = (IF all THEN "filesReady" ELSE "filesMissing")
               /\ disabled'["processBtn"] = ~all]_vars

\* the load button is disabled and a role holds no file, after a load
\* attempt that read the three files reported a parse error
C13_Witness ==
  /\ disabled["processBtn"]
  /\ \E k \in RoleSet : ~loadedFiles[k].present
  /\ \E a \in Attempts : attempts[a].errored # {} /\ allFilesReady(attempts[a].files)
  /\ generalStatus.msg = "parseError"

\* in this step inspectData runs on parsed training rows that are not empty
Inspects ==
  /\ inspectData
  /\ ~rawParsedData["training"].isNull
  /\ Len(rawParsedData["training"].rows) > 0

\* the text and label keys inspectData takes from the first training row
KeysInUse == InferColumns(rawParsedData["training"].rows[1])

\* a raw row is to be kept: its text is a string that is not blank and its
\* label is the number 0 or 1 or a string that trims to "0" or "1"
ToBeKept(text, label) ==
  /\ text.t = "string"
  /\ Len(trim(text.s)) > 0
  /\ \/ label.t = "number" /\ label.n \in {0, 1}
     \/ label.t = "string" /\ trim(label.s) \in {<<"0">>, <<"1">>}

\* the integer label of a row that is to be kept
IntegerLabel(label) ==
  IF label.t = "number" THEN label.n ELSE IF trim(label.s) = <<"1">> THEN 1 ELSE 0

\* the rows that are to be kept, in order, with trimmed text and integer label
KeptRows(rows, textKey, labelKey) ==
  LET kept == SelectSeq(rows, LAMBDA row : ToBeKept(Get(row, textKey), Get(row, labelKey)))
  IN [i \in 1..Len(kept) |->
        [text |-> trim(Get(kept[i], textKey).s), label |-> IntegerLabel(Get(kept[i], labelKey))]]

\* C14: inspectData leaves as each role's normalized rows exactly the raw
\* rows whose text is a string with trimmed length > 0 and whose label is the
\* number 0 or 1 or a string that trims to "0" or "1", in order, each with its
\* text trimmed and its label as the integer 0 or 1; every other row is dropped.
C14_RowKeptIffTextAndLabelValid ==
  [][Inspects =>
       \A k \in RoleSet :
         normalizedData'[k] =
           NormRows(KeptRows(rawParsedData[k].rows, KeysInUse.textKey, KeysInUse.labelKey))]_vars

\* a training row with blanks around its text and the string label "1" was
\* kept as trimmed text with the integer label 1, and two of the three
\* testing rows were dropped
C14_Witness ==
  /\ step = 3
  /\ rawParsedData["training"].rows =
       << <<Field(H_text, Str(T_AISpam)), Field(H_label, Str(<<"1">>))>> >>
  /\ normalizedData["training"] = NormRows(<<[text |-> <<"A","I"," ","s","p","a","m","!">>, label |-> 1]>>)
  /\ rawParsedData["testing"].rows = DataMixed
  /\ normalizedData["testing"] = NormRows(<<[text |-> T_Unseen, label |-> 1]>>)

\* the number of rows of the three roles together
TotalRows(data) ==
  Len(data["training"].rows) + Len(data["testing"].rows) + Len(data["validation"].rows)

\* C15: the total of excluded rows inspectData reports is the number of raw
\* rows of the three roles minus the number of their normalized rows, and the
\* report is the clean one exactly when that total is 0.
C15_ExcludedTotalIsRawMinusNormalized ==
  [][Inspects =>
       /\ generalStatus'.msg \in {"clean", "excluded"}
       /\ generalStatus'.n = TotalRows(rawParsedData) - TotalRows(normalizedData')
       /\ generalStatus'.msg = "clean" <=> TotalRows(rawParsedData) = TotalRows(normalizedData')]_vars

\* three rows were reported excluded: the training row for its blank text,
\* two testing rows for a label or a text
C15_Witness ==
  /\ step = 3
  /\ generalStatus = Status("excluded", "bg-yellow-100", <<>>, 3)
  /\ rawParsedData["training"].rows = << <<Field(H_text, Str(<<" ">>)), Field(H_label, Num(1))>> >>
  /\ normalizedData["training"] = NormRows(<<>>)
  /\ Len(normalizedData["testing"].rows) = 1
  /\ Len(normalizedData["validation"].rows) = 2

\* C16: inspectData run on parsed training rows that are not empty shows
\* step 3 and enables the preprocess button, whatever number of rows it drops.
C16_ExclusionsNeverBlock ==
  [][Inspects => step' = 3 /\ ~disabled'["preprocessBtn"]]_vars

\* every training row was dropped, and step 3 is shown with the preprocess
\* button enabled
C16_Witness ==
  /\ step = 3
  /\ ~disabled["preprocessBtn"]
  /\ Len(rawParsedData["training"].rows) = 1
  /\ normalizedData["training"] = NormRows(<<>>)
  /\ generalStatus.msg = "excluded"

\* the number of a role's rows that passed the validation of inspectData
ValidRowCount(k) ==
  IF normalizedData[k].kind = "rows" THEN Len(normalizedData[k].rows)
  ELSE IF normalizedData[k].kind = "tensors" THEN Len(normalizedData[k].features)
  ELSE 0

\* C17: whenever step 3 or a later step is shown, every role has at least
\* one row that passed the text / label validation.
C17_NoStageWithoutValidRows ==
  step >= 3 => \A k \in RoleSet : ValidRowCount(k) > 0

\* the quote and space characters that may surround a header name
QuoteOrSpace == WhiteSpace \cup {"'", "\""}

RECURSIVE StripStart(_)
StripStart(s) == IF s # <<>> /\ Head(s) \in QuoteOrSpace THEN StripStart(Tail(s)) ELSE s

RECURSIVE StripEnd(_)
StripEnd(s) ==
  IF s # <<>> /\ s[Len(s)] \in QuoteOrSpace THEN StripEnd(SubSeq(s, 1, Len(s) - 1)) ELSE s

\* a header equals the target case-insensitively once the quote and space
\* characters that surround it are trimmed
HeaderIs(k, target) == toLowerCase(StripEnd(StripStart(k))) = target

\* the first header of the row that is the target, if there is one
HeaderFor(rowKeys, target) ==
  IF \E i \in 1..Len(rowKeys) : HeaderIs(rowKeys[i], target)
    THEN Key(rowKeys[CHOOSE i \in 1..Len(rowKeys) :
                       /\ HeaderIs(rowKeys[i], target)
                       /\ \A j \in 1..(i - 1) : ~HeaderIs(rowKeys[j], target)])
    ELSE NoKey

\* the text and label keys column inference is to yield for a first row
KeysToInfer(firstRow) ==
  LET rowKeys == ObjectKeys(firstRow)
      text == HeaderFor(rowKeys, H_text)
      label == HeaderFor(rowKeys, H_label)
      nonEmpty == SelectSeq(rowKeys, LAMBDA k : Len(trim(k)) > 0)
      absent == ~text.def \/ ~label.def
  IN [textKey |-> IF absent /\ ~text.def THEN At(nonEmpty, 1) ELSE text,
      labelKey |-> IF absent /\ ~label.def THEN At(nonEmpty, 2) ELSE label,
      warning |-> absent]

\* C18: inspectData takes as text key the header of the first training row
\* that equals 'text' case-insensitively after the surrounding quote and
\* space characters are trimmed, and as label key the one that so equals
\* 'label'; a key that is absent falls back to the first (text) or second
\* (label) non-empty header and the message shown is then the warning; and
\* each role's rows are normalized under these two keys.
C18_ColumnInference ==
  [][Inspects =>
       LET keys == KeysToInfer(rawParsedData["training"].rows[1])
       IN /\ inspectionMessage'.msg = (IF keys.warning THEN "inferredColumns" ELSE "columns")
          /\ \A k \in RoleSet :
               normalizedData'[k] =
                 NormRows(NormalizeRows(rawParsedData[k].rows, keys.textKey, keys.labelKey))]_vars

RECURSIVE Flatten(_)
\* the tokens of a list of token lists, in order
Flatten(lists) == IF lists = <<>> THEN <<>> ELSE Head(lists) \o Flatten(Tail(lists))

\* the distinct tokens of a list of texts in first-encounter order: each
\* token where it first occurs, by row and then by position in the row
DistinctTokens(texts) ==
  LET tokens == Flatten([i \in 1..Len(texts) |-> simpleTokenizer(texts[i])])
      first == {i \in 1..Len(tokens) : \A j \in 1..(i - 1) : tokens[j] # tokens[i]}
      Place(i) == Cardinality({j \in first : j <= i})
  IN [n \in 1..Cardinality(first) |-> tokens[CHOOSE i \in first : Place(i) = n]]

\* the texts of the training rows the vocabulary is built from: the
\* normalized rows in src/unnamed/part_000, the stored rows in src/app.js
NormalizedTexts == [i \in 1..Len(normalizedData["training"].rows) |->
                      Str(normalizedData["training"].rows[i].text)]

StoredTexts == [i \in 1..Len(rawParsedData["training"].rows) |->
                  Get(rawParsedData["training"].rows[i], Key(H_text))]

\* in this step preprocessData of either variant builds the vocabulary
BuildsFromNormalized == preprocessData /\ normalizedData["training"].kind = "rows"

BuildsFromStored == preprocessDataApp /\ ~rawParsedData["training"].isNull

\* the table maps <PAD> to 0, <OOV> to 1 and the n-th distinct token to n + 1,
\* and has no other entry
DenseFromTwo(table, distinct) ==
  /\ {table[i] : i \in 1..Len(table)} =
       {Entry(W_PAD, 0), Entry(W_OOV, 1)}
         \cup {Entry(distinct[n], n + 1) : n \in 1..Len(distinct)}
  /\ Len(table) = 2 + Len(distinct)

\* C19: after preprocessData, in each variant, the vocabulary maps <PAD> to 0
\* and <OOV> to 1, and the distinct tokens of the training rows to 2, 3, 4,
\* ... in first-encounter order.
C19_TokensDenseFromTwo ==
  [][/\ BuildsFromNormalized => DenseFromTwo(wordIndex', DistinctTokens(NormalizedTexts))
     /\ BuildsFromStored => DenseFromTwo(wordIndex', DistinctTokens(StoredTexts))]_vars

\* C20: after preprocessData, in each variant, VOCAB_SIZE is 2 plus the
\* number of distinct tokens of the training rows, and is the number of
\* entries of the vocabulary table.
C20_VocabSizeCountsEntries ==
  [][/\ BuildsFromNormalized =>
          /\ VOCAB_SIZE' = 2 + Len(DistinctTokens(NormalizedTexts))
          /\ VOCAB_SIZE' = Len(wordIndex')
     /\ BuildsFromStored =>
          /\ VOCAB_SIZE' = 2 + Len(DistinctTokens(StoredTexts))
          /\ VOCAB_SIZE' = Len(wordIndex')]_vars

\* no two entries of the table share an index, and only <PAD> and <OOV>
\* hold the indices 0 and 1
Injective(table) ==
  /\ \A i, j \in 1..Len(table) : table[i].index = table[j].index => i = j
  /\ \A i \in 1..Len(table) :
       table[i].index \in {0, 1} => table[i].word \in {W_PAD, W_OOV}

\* C21: after preprocessData, in each variant, no two distinct entries of the
\* vocabulary share an index, and no training token has the index 0 or 1.
C21_VocabularyInjective ==
  [][(BuildsFromNormalized \/ BuildsFromStored) => Injective(wordIndex')]_vars

\* in this step a stage after preprocessing runs, or one of its awaited
\* promises settles
LaterStage ==
  CreateEmbeddings \/ createModel \/ trainModel \/ EvaluateModel \/ MakePrediction \/ Settles

\* the sequence encodes each token that has no entry in the table as 1
AbsentTokensAsOOV(sequence, text, table) ==
  LET tokens == simpleTokenizer(Str(text))
  IN \A i \in 1..Len(tokens) :
       (i <= Len(sequence) /\ \A e \in 1..Len(table) : table[e].word # tokens[i])
         => sequence[i] = 1

\* C22: createEmbeddings, createModel, trainModel, evaluateModel and
\* makePrediction (and the settling of what they await) leave the vocabulary
\* and VOCAB_SIZE as preprocessData built them, and a token without an entry
\* in the vocabulary, in a row of any role or in the prediction input, is
\* encoded as 1.
C22_VocabularyReadOnly ==
  [][LaterStage =>
       /\ UNCHANGED <<wordIndex, VOCAB_SIZE>>
       /\ \A typed \in PredictionTexts :
            (\E throws \in BOOLEAN : makePrediction(typed, throws)) /\ inputTensor' # inputTensor
              => AbsentTokensAsOOV(inputTensor', trim(typed), wordIndex)
       /\ \A k \in RoleSet :
            (CreateEmbeddings /\ normalizedData'[k].kind = "tensors") =>
              \A r \in 1..Len(normalizedData[k].rows) :
                AbsentTokensAsOOV(normalizedData'[k].features[r],
                                  normalizedData[k].rows[r].text, wordIndex)]_vars

\* the index the table gives a token, 1 for a token without an entry
MappedIndex(table, token) ==
  IF \E e \in 1..Len(table) : table[e].word = token
    THEN table[CHOOSE e \in 1..Len(table) : table[e].word = token].index
    ELSE 1

\* the first L mapped indices of the tokens, followed by 0s up to length L
FirstThenZeros(tokens, table, L) ==
  [i \in 1..L |-> IF i <= Len(tokens) THEN MappedIndex(table, tokens[i]) ELSE 0]

\* C23: for every text, vocabulary and length L the encoder returns the
\* sequence of length exactly L made of the first L mapped indices of the
\* text's tokens (the vocabulary index, 1 for an absent token) followed by 0s.
C23_EncoderTruncatesAndPads ==
  [][\A text \in EncoderTexts : \A L \in EncoderLengths :
       EncodeText(text, L) =>
         /\ Len(inputTensor') = L
         /\ inputTensor' = FirstThenZeros(simpleTokenizer(Str(text)), wordIndex, L)]_vars


\* an element the claim allows: 0, 1, or an index from 2 on that the
\* vocabulary holds, below the embedding's input dimension VOCAB_SIZE
AllowedElement(x) ==
  /\ x \in 0..(VOCAB_SIZE - 1)
  /\ x >= 2 => \E e \in 1..Len(wordIndex) : wordIndex[e].index = x

\* C24: every element of every encoded sequence, of the dataset rows of the
\* three roles and of the prediction input, is 0, 1 or an index from 2 on of
\* the vocabulary, so it lies in 0 .. VOCAB_SIZE-1.
C24_ElementsWithinVocabulary ==
  /\ \A i \in 1..Len(inputTensor) : AllowedElement(inputTensor[i])
  /\ \A k \in RoleSet :
       normalizedData[k].kind = "tensors" =>
         \A r \in 1..Len(normalizedData[k].features) :
           \A i \in 1..Len(normalizedData[k].features[r]) :
             AllowedElement(normalizedData[k].features[r][i])


\* the sequence createEmbeddings builds for a dataset row with this text
DatasetSequence(text, table) ==
  EncodeRows(<<[text |-> text, label |-> 0]>>, table).features[1]

\* makePrediction builds a sequence for the typed text
BuildsPredictionInput(typed) ==
  /\ \E throws \in BOOLEAN : makePrediction(typed, throws)
  /\ disabled'["predictBtn"]

\* C25: for every input text and every vocabulary, the sequence
\* makePrediction builds for the text equals the sequence createEmbeddings
\* builds for a dataset row with the same text.
C25_PredictionEncodingAgrees ==
  [][\A typed \in PredictionTexts :
       BuildsPredictionInput(typed) => inputTensor' = DatasetSequence(trim(typed), wordIndex)]_vars

\* a prediction input with known tokens, an OOV token and padding is built
C25_Witness ==
  /\ awaiting.predict = 1
  /\ disabled["predictBtn"]
  /\ Len(inputTensor) = MAX_SEQUENCE_LENGTH
  /\ inputTensor[1] >= 2
  /\ \E i \in 1..Len(inputTensor) : inputTensor[i] = 1
  /\ inputTensor[Len(inputTensor)] = 0


\* model.fit fails inside trainModel
FitFails == FitSettles(FALSE)

\* model.evaluate, or reading its result, fails inside evaluateModel
EvaluateFails ==
  \/ evaluateModel(TRUE) /\ ~EvaluateNotReady
  \/ EvaluateSettles(FALSE)

\* C26: when model.fit fails inside trainModel, or model.evaluate or the
\* reading of its result fails inside evaluateModel, the pipeline stays at
\* its step and the stage's button is enabled again.
C26_StagesReenterableAfterFailure ==
  [][/\ FitFails => (step' = step /\ ~disabled'["trainModelBtn"])
     /\ EvaluateFails => (step' = step /\ ~disabled'["evaluateBtn"])]_vars


\* createEmbeddings fails while converting a role's rows to tensors
EmbeddingFails ==
  \E tensorFails \in BOOLEAN :
    /\ createEmbeddings(tensorFails)
    /\ tensorFails \/ \E k \in RoleSet : normalizedData[k].kind # "rows"

\* C27: when createEmbeddings fails, the pipeline stays at its step, the
\* normalized rows of the three roles and the vocabulary are left as the
\* previous stage produced them, and the embed button is enabled again.
C27_EmbeddingFailureKeepsArtifacts ==
  [][EmbeddingFails =>
       /\ step' = step
       /\ UNCHANGED <<normalizedData, wordIndex, VOCAB_SIZE>>
       /\ ~disabled'["embeddingBtn"]]_vars

\* the state a failed conversion leaves at the embedding step: the rows of
\* the three roles in place and the embed button enabled for the retry
C27_Witness ==
  /\ step = 4
  /\ ~disabled["embeddingBtn"]
  /\ disabled["createModelBtn"]
  /\ \A k \in RoleSet : normalizedData[k].kind = "rows"
  /\ Len(wordIndex) > 2


\* preprocessData builds a vocabulary while an earlier run's table is in place
BuildsAgain == BuildsFromNormalized /\ wordIndex # <<>>

\* C28: running preprocessData again on unchanged training rows yields the
\* same vocabulary and the same VOCAB_SIZE as the run before, the result is
\* the table built from scratch from the rows, and the rows encode to the
\* same sequences against it.
C28_PreprocessingIdempotent ==
  [][BuildsAgain =>
       LET rows == normalizedData["training"].rows
       IN /\ wordIndex' = wordIndex
          /\ VOCAB_SIZE' = VOCAB_SIZE
          /\ wordIndex' = BuildVocabulary(rows).wordIndex
          /\ EncodeRows(rows, wordIndex') = EncodeRows(rows, wordIndex)]_vars

\* the vocabulary of a first run is in place, with training tokens in it, and
\* preprocessData can be run again on the same rows
C28_Witness ==
  /\ Len(wordIndex) > 3
  /\ VOCAB_SIZE = Len(wordIndex)
  /\ ~disabled["preprocessBtn"]
  /\ normalizedData["training"].kind = "rows"
  /\ Len(normalizedData["training"].rows) = 2


\* a token as the claim describes it: not empty, and without a character of
\* the stripped class, a capital letter or white space
WellFormedToken(token) ==
  /\ token # <<>>
  /\ \A i \in 1..Len(token) :
       /\ token[i] \notin {".", ",", "/", "#", "!", "$", "%", "^", "&", "*", ";", ":",
                           "{", "}", "=", "-", "_", Grave, "~", "(", ")"}
       /\ token[i] \notin {UpperChars[c] : c \in 1..Len(UpperChars)}
       /\ token[i] \notin {" ", "\t", "\n", "\r"}

\* C29: for every input text simpleTokenizer returns tokens that are not
\* empty, lower-case, free of the stripped punctuation and of white space;
\* the empty string gives the empty list and "Hello, World!" gives
\* ["hello", "world"].
C29_TokensWellFormed ==
  [][/\ \A i \in 1..Len(tokenized') : WellFormedToken(tokenized'[i])
     /\ Tokenize(Str(<<>>)) => tokenized' = <<>>
     /\ Tokenize(Str(T_HelloWorld)) =>
          tokenized' = << <<"h","e","l","l","o">>, <<"w","o","r","l","d">> >>]_vars

\* the tokenizer has returned the tokens of "Hello, World!"
C29_Witness == tokenized = << <<"h","e","l","l","o">>, <<"w","o","r","l","d">> >>


\* the headers of the first training row that are not blank
NonBlankHeaders(firstRow) ==
  {i \in 1..Len(firstRow) : trim(firstRow[i].k) # <<>>}

\* C30: after column inference in inspectData, when the first training row
\* has at least two non-empty headers, the text key and the label key are
\* both defined and name two different columns.
C30_KeysDefinedAndDistinct ==
  [][Inspects =>
       LET firstRow == rawParsedData["training"].rows[1]
           columns == InferColumns(firstRow)
       IN Cardinality(NonBlankHeaders(firstRow)) >= 2 =>
            /\ columns.textKey.def
            /\ columns.labelKey.def
            /\ columns.textKey.k # columns.labelKey.k]_vars


\* loadData has just been invoked as attempt a with an accepted file for
\* each role, every one of them a file that parses to at least one row
LoadingGoodFiles(a) ==
  /\ a <= Len(attempts)
  /\ attempts[a].pending = RoleSet
  /\ \A k \in RoleSet :
       attempts[a].files[k].present /\ Len(ParsedRows(attempts[a].files[k].content)) >= 1

\* a parse of attempt a has reported an error
ParseErrorIn(a) == a <= Len(attempts) /\ attempts[a].errored # {}

\* C31: if the three roles hold an accepted file, loadData is invoked and
\* each of the three parsers reports completion with at least one row and
\* no error, then the pipeline eventually shows step 2 with the inspect
\* button enabled.
C31_GoodLoadReachesInspection ==
  \A a \in 1..MaxLoads :
    LoadingGoodFiles(a) ~> ((step = 2 /\ ~disabled["inspectBtn"]) \/ ParseErrorIn(a))


\* handleFileChange runs for the input element id
FileChangeFor(id) == \E file \in SelectableFiles(id) : handleFileChange(id, file)

\* C32: handleFileChange for one role changes only that role's accepted-file
\* entry: the entries of the other two roles and the parsed rows, normalized
\* rows, vocabulary and model are left unchanged, whether the file is
\* accepted or rejected.
C32_FileChangeTouchesOneRole ==
  [][\A id \in InputIds :
       \/ /\ \A k \in RoleSet \ {fileMappings[id].role} : loadedFiles'[k] = loadedFiles[k]
          /\ UNCHANGED <<rawParsedData, normalizedData, wordIndex, VOCAB_SIZE, model>>
       \/ ~FileChangeFor(id)]_vars

\* a file has been rejected for the training role, and another accepted for
\* the testing role, after the pipeline had built its artifacts
C32_Witness ==
  /\ ~loadedFiles["training"].present
  /\ loadedFiles["testing"].present
  /\ loadedFiles["validation"].present
  /\ ~rawParsedData["training"].isNull
  /\ Len(wordIndex) > 2
  /\ ~model.isNull

====
